---- MODULE Spec2Model ----
(***************************************************************************)
(* Alert scheduling engine of the prayer-times display (src/main.py):      *)
(* TimeUtils.convert_12h_to_24h, PrayerTimesDataManager's lookup,          *)
(* IntegratedAlert (frame, countdown timer, fade-out), AlertManager        *)
(* (check_alerts, show_alert, hide_alert, test_alert) and the 1-second     *)
(* handler PrayerTimesUI.update_time.                                      *)
(*                                                                         *)
(* Time is the wall clock in whole seconds of the day (now) and a day      *)
(* number (day).  Strings are modelled by their structure: a time text is  *)
(* a record (hour digits, minute digits, AM/PM marker, surrounding         *)
(* whitespace), any other text is a record [text |-> ...]; an alert key    *)
(* "Zohor_5min" is the record [prayer |-> "Zohor", kind |-> "5min"].       *)
(*                                                                         *)
(* Qt is the environment.  The model assumes of it what the code assumes:  *)
(* a started QTimer delivers its timeout about once per second for as long *)
(* as it is active, and the fade-out animation started by hide_alert       *)
(* delivers its finished signal about 500 ms later.                        *)
(***************************************************************************)
EXTENDS Integers, Sequences, FiniteSets, TLC

VARIABLES
    now,               \* wall clock, seconds since 00:00:00 of the current day
    day,               \* calendar day number of the wall clock
    prayer_times,      \* PrayerTimesDataManager.prayer_times: sequence of rows
    alert_active,      \* AlertManager.alert_active
    current_alert,     \* AlertManager.current_alert (None or a key)
    triggered_alerts,  \* AlertManager.triggered_alerts (the keys set to True)
    alert_frame,       \* IntegratedAlert.alert_frame (None or the frame shown)
    alert_type,        \* IntegratedAlert.alert_type
    remaining_time,    \* IntegratedAlert.remaining_time
    timer_active,      \* IntegratedAlert.timer is running
    lag,               \* update_time ticks minus countdown timeouts, this timer run
    fade0,             \* fade-outs in flight that finish before the next tick
    fade1,             \* fade-outs in flight that may finish after the next tick
    raised,            \* history: what the last step raised (None if nothing)
    fired,             \* history: keys raised since the last midnight reset
    last,              \* history: the kind of the last step
    guard,             \* history: what the active-alert guard did in the last step
    expired,           \* history: a countdown has reached zero
    ticks,             \* history: number of update_time calls so far
    user,              \* history: number of user actions so far
    data_file,         \* the file at data_file_path (None: it does not exist)
    backup_file,       \* the file at data_file_path + ".bak"
    pc,                \* where upload_csv / save_prayer_times stands ("idle": not running)
    csv_reader,        \* upload_csv: the chosen file, its rows not yet read
    upload_rows,       \* upload_csv: its local list prayer_times
    message_box,       \* the last message box shown
    result,            \* what the last get_prayer_times_for_date returned
    prior,             \* history: data_file when the running save began
    old_times,         \* history: prayer_times when the running upload began
    save_log,          \* history: how the steps of the last save ended
    uploads,           \* history: number of uploads and restarts so far
    retry_count,       \* load_prayer_times: its local retry_count
    conv_arg,          \* the text convert_12h_to_24h is called with
    conv_ret,          \* what it returned, and what it returned for that in turn
    label_text,        \* MarqueeManager: the text of the flash message label
    original_text,     \* MarqueeManager.original_text
    shifts,            \* history: update_marquee calls since the text was set, modulo its length
    aborted,           \* history: the last update_time ended with an exception
    config_file,       \* what json.load gives for config.json
    config             \* ConfigManager.config

vars == <<now, day, prayer_times, alert_active, current_alert, triggered_alerts,
          alert_frame, alert_type, remaining_time, timer_active, lag, fade0, fade1,
          raised, fired, last, guard, expired, ticks, user,
          data_file, backup_file, pc, csv_reader, upload_rows, message_box, result,
          prior, old_times, save_log, uploads, retry_count, conv_arg, conv_ret,
          label_text, original_text, shifts, aborted, config_file, config>>

\* the variables of the schedule store, its files and the upload dialog
storeVars == <<data_file, backup_file, pc, csv_reader, upload_rows, message_box, result,
               prior, old_times, save_log, uploads, retry_count>>

\* the variables of a call of convert_12h_to_24h on its own
convVars == <<conv_arg, conv_ret>>

\* the variables of the marquee
marqueeVars == <<label_text, original_text, shifts>>

\* the variables of the configuration
configVars == <<config_file, config>>

\* the variables of the alert engine (the schedule prayer_times is shared)
engineVars == <<now, day, alert_active, current_alert, triggered_alerts,
                alert_frame, alert_type, remaining_time, timer_active, lag, fade0,
                fade1, raised, fired, last, guard, expired, ticks, user, aborted>>

None == [none |-> TRUE]

----------------------------------------------------------------------------
(* Bounds of the model *)

MaxTicks == 12
MaxQuiet == 70
MaxUser == 1
MaxJumps == 6
MaxHour == 24
MaxMinute == 60
MaxUploads == 2
MaxMessage == 3

----------------------------------------------------------------------------
(* Program constants *)

DaySeconds == 24 * 3600

Reminder10Lo == 570
Reminder10Hi == 630
Reminder5Lo == 270
Reminder5Hi == 330
AzanLo == -1
AzanHi == 1
IqamahLo == -300
IqamahHi == -240
PrayerTimeLo == -1200
PrayerTimeHi == -1140
OverrideLo == -30
OverrideHi == 30

SyurukDuration == 28 * 60
AzanDuration == 60 * 3
IqamahDuration == 60 * 10
ReminderDuration == 30

\* variant: a 5-minute hold
PrayerTimeDuration_Short == 5 * 60
PrayerTimeDuration == 15 * 60

prayer_names == <<"Imsak", "Subuh", "Syuruk", "Zohor", "Asar", "Maghrib", "Isyak">>
azan_prayer_names == {"Subuh", "Zohor", "Asar", "Maghrib", "Isyak"}

Prayers == {prayer_names[i] : i \in 1..Len(prayer_names)}
AlertTypes == {"reminder", "azan", "iqamah", "prayer_time"}

----------------------------------------------------------------------------
(* Time texts and TimeUtils.convert_12h_to_24h *)

\* "hh:mm AM" / "hh:mm PM" / "hh:mm", ws: surrounded by whitespace
T12(h, m, mer) == [hh |-> h, mm |-> m, mer |-> mer, ws |-> FALSE]
T24(h, m) == [hh |-> h, mm |-> m, mer |-> "", ws |-> FALSE]
Txt(s) == [text |-> s]

IsTimeText(s) == "hh" \in DOMAIN s

\* variant: the text as it is
Strip_Keep(s) == s

\* str.strip()
Strip(s) == IF IsTimeText(s) THEN [s EXCEPT !.ws = FALSE] ELSE s

\* strptime(s, "%I:%M %p") succeeds
Parses12(s) ==
    /\ IsTimeText(s)
    /\ ~s.ws
    /\ s.mer \in {"AM", "PM"}
    /\ s.hh \in 1..12
    /\ s.mm \in 0..59

\* strptime(s, "%H:%M") succeeds
Parses24(s) ==
    /\ IsTimeText(s)
    /\ ~s.ws
    /\ s.mer = ""
    /\ s.hh \in 0..23
    /\ s.mm \in 0..59

\* variant: 12 is an hour like the others
Hour24_NoWrap(s) == s.hh + (IF s.mer = "PM" THEN 12 ELSE 0)

\* strptime(...).strftime("%H:%M")
Hour24(s) == (s.hh % 12) + (IF s.mer = "PM" THEN 12 ELSE 0)

\* the two strptime attempts, on the stripped text
ParseStripped(s) ==
    IF Parses12(s) THEN T24(Hour24(s), s.mm)
    ELSE IF Parses24(s) THEN s
    ELSE None

convert_12h_to_24h(time_str) ==
    IF time_str = None \/ time_str = Txt("") THEN None
    ELSE ParseStripped(Strip(time_str))

\* hour, minute = map(int, time_24h.split(':')); datetime.time(hour, minute)
\* combined with the current date, as seconds of the day
PrayerSeconds(time_24h) == time_24h.hh * 3600 + time_24h.mm * 60

----------------------------------------------------------------------------
(* PrayerTimesDataManager *)

DateCol == "Tarikh Miladi"

\* variant: a placeholder with a time in it
NAText_Timed == T12(1, 0, "PM")

NAText == Txt("N/A")

\* _create_fallback_data: one row for the construction date, every time "N/A"
fallback_prayer_times ==
    <<[c \in {DateCol, "Tarikh Hijri", "Hari"} \cup Prayers |->
          IF c = DateCol THEN 0
          ELSE IF c \in {"Tarikh Hijri", "Hari"} THEN Txt("Unknown") ELSE NAText]>>

\* the schedule has no row for the date
NoRowFor(rows, date) ==
    \A i \in 1..Len(rows) : ~(DateCol \in DOMAIN rows[i] /\ rows[i][DateCol] = date)

\* variant: the last entry of the date
get_prayer_times_for_date_Last(rows, date) ==
    IF \E i \in 1..Len(rows) : DateCol \in DOMAIN rows[i] /\ rows[i][DateCol] = date
    THEN rows[CHOOSE i \in 1..Len(rows) :
                /\ DateCol \in DOMAIN rows[i] /\ rows[i][DateCol] = date
                /\ \A j \in (i + 1)..Len(rows) :
                      ~(DateCol \in DOMAIN rows[j] /\ rows[j][DateCol] = date)]
    ELSE fallback_prayer_times[1]

\* get_prayer_times_for_date, asked for the date of the wall clock
get_prayer_times_for_date(rows, date) ==
    IF \E i \in 1..Len(rows) : DateCol \in DOMAIN rows[i] /\ rows[i][DateCol] = date
    THEN rows[CHOOSE i \in 1..Len(rows) :
                /\ DateCol \in DOMAIN rows[i] /\ rows[i][DateCol] = date
                /\ \A j \in 1..(i - 1) :
                      ~(DateCol \in DOMAIN rows[j] /\ rows[j][DateCol] = date)]
    ELSE fallback_prayer_times[1]

----------------------------------------------------------------------------
(* IntegratedAlert, as operations on a record of its fields.  fades counts *)
(* the fade-out animations the running handler has started, fresh tells    *)
(* that it has (re)started the countdown timer.                            *)

IAState ==
    [alert_frame |-> alert_frame, alert_type |-> alert_type,
     remaining_time |-> remaining_time, timer_active |-> timer_active,
     fades |-> 0, fresh |-> FALSE]

\* IntegratedAlert.hide_alert
IA_hide_alert(ia) ==
    IF ia.alert_frame # None
    THEN [ia EXCEPT !.timer_active = FALSE, !.fades = @ + 1]
    ELSE ia

\* IntegratedAlert.show_alert
IA_show_alert(ia, message, duration, type) ==
    [IA_hide_alert(ia) EXCEPT
        !.alert_type = type,
        !.alert_frame = [message |-> message, type |-> type],
        !.remaining_time = IF type = "prayer_time" THEN PrayerTimeDuration ELSE duration,
        !.timer_active = TRUE,
        !.fresh = TRUE]

\* IntegratedAlert.delete_alert_frame
delete_alert_frame(frame) == None

----------------------------------------------------------------------------
(* AlertManager, as operations on a record m of its fields:                *)
(* alert_active, current_alert, triggered_alerts, ia, and what the call    *)
(* did: raised (the message shown) and guard (the guard's outcome).        *)

AMState ==
    [alert_active |-> alert_active, current_alert |-> current_alert,
     triggered_alerts |-> triggered_alerts, ia |-> IAState, raised |-> None,
     guard |-> "none"]

DefaultDuration(type) ==
    IF type = "azan" THEN AzanDuration
    ELSE IF type = "iqamah" THEN IqamahDuration
    ELSE ReminderDuration

\* AlertManager.show_alert
show_alert(m, message, type, duration) ==
    [m EXCEPT !.ia = IA_show_alert(m.ia, message, duration, type),
              !.alert_active = TRUE,
              !.raised = message]

\* AlertManager.hide_alert
hide_alert(m) ==
    [m EXCEPT !.ia = IA_hide_alert(m.ia),
              !.alert_active = FALSE,
              !.current_alert = None]

\* variant: the test alert takes a key of its own
test_alert_Keyed(m, type) ==
    show_alert([m EXCEPT !.current_alert = [prayer |-> "TEST", kind |-> type]],
               [test |-> type], type, DefaultDuration(type))

\* AlertManager.test_alert
test_alert(m, type) ==
    show_alert(m, [test |-> type], type, DefaultDuration(type))

\* f"{prayer}_{kind}"
Key(prayer, kind) == [prayer |-> prayer, kind |-> kind]

\* the alert_type show_alert is called with for each kind of key
TypeOfKind(kind) ==
    CASE kind \in {"10min", "5min"} -> "reminder"
      [] kind = "azan" -> "azan"
      [] kind = "iqamah" -> "iqamah"
      [] kind = "prayer_time" -> "prayer_time"

\* parts[1] of current_alert.split('_')
KindHead(kind) == IF kind = "prayer_time" THEN "prayer" ELSE kind

\* the window of a prayer that diff_seconds falls in, as the kind of its key
\* variant: the iqamah window without its far edge
WindowKind_OpenIqamah(prayer, diff) ==
    IF prayer = "Syuruk" \/ prayer = "Imsak"
    THEN IF Reminder5Lo <= diff /\ diff <= Reminder5Hi THEN "5min" ELSE "none"
    ELSE IF prayer \in azan_prayer_names
    THEN IF Reminder10Lo <= diff /\ diff <= Reminder10Hi THEN "10min"
         ELSE IF Reminder5Lo <= diff /\ diff <= Reminder5Hi THEN "5min"
         ELSE IF AzanLo <= diff /\ diff <= AzanHi THEN "azan"
         ELSE IF IqamahLo < diff /\ diff <= IqamahHi THEN "iqamah"
         ELSE IF PrayerTimeLo <= diff /\ diff <= PrayerTimeHi THEN "prayer_time"
         ELSE "none"
    ELSE "none"

\* variant: Imsak and Syuruk with the windows of the five prayers
WindowKind_AllFull(prayer, diff) ==
    IF Reminder10Lo <= diff /\ diff <= Reminder10Hi THEN "10min"
    ELSE IF Reminder5Lo <= diff /\ diff <= Reminder5Hi THEN "5min"
    ELSE IF AzanLo <= diff /\ diff <= AzanHi THEN "azan"
    ELSE IF IqamahLo <= diff /\ diff <= IqamahHi THEN "iqamah"
    ELSE IF PrayerTimeLo <= diff /\ diff <= PrayerTimeHi THEN "prayer_time"
    ELSE "none"

\* variant: the iqamah window matches nothing
WindowKind_NoIqamah(prayer, diff) ==
    IF prayer = "Syuruk" \/ prayer = "Imsak"
    THEN IF Reminder5Lo <= diff /\ diff <= Reminder5Hi THEN "5min" ELSE "none"
    ELSE IF prayer \in azan_prayer_names
    THEN IF Reminder10Lo <= diff /\ diff <= Reminder10Hi THEN "10min"
         ELSE IF Reminder5Lo <= diff /\ diff <= Reminder5Hi THEN "5min"
         ELSE IF AzanLo <= diff /\ diff <= AzanHi THEN "azan"
         ELSE IF PrayerTimeLo <= diff /\ diff <= PrayerTimeHi THEN "prayer_time"
         ELSE "none"
    ELSE "none"

WindowKind(prayer, diff) ==
    IF prayer = "Syuruk" \/ prayer = "Imsak"
    THEN IF Reminder5Lo <= diff /\ diff <= Reminder5Hi THEN "5min" ELSE "none"
    ELSE IF prayer \in azan_prayer_names
    THEN IF Reminder10Lo <= diff /\ diff <= Reminder10Hi THEN "10min"
         ELSE IF Reminder5Lo <= diff /\ diff <= Reminder5Hi THEN "5min"
         ELSE IF AzanLo <= diff /\ diff <= AzanHi THEN "azan"
         ELSE IF IqamahLo <= diff /\ diff <= IqamahHi THEN "iqamah"
         ELSE IF PrayerTimeLo <= diff /\ diff <= PrayerTimeHi THEN "prayer_time"
         ELSE "none"
    ELSE "none"

\* Imsak's branch sets no dedupe key and tests none
Dedupes(prayer) == prayer # "Imsak"

\* variant: Syuruk's reminder with the default duration
DurationOf_NoSyuruk(prayer, kind) == DefaultDuration(TypeOfKind(kind))

DurationOf(prayer, kind) ==
    IF prayer = "Syuruk" THEN SyurukDuration ELSE DefaultDuration(TypeOfKind(kind))

\* variant: a window whose key has fired is passed over
WindowOutcome_PassOver(m, prayer, kind) ==
    IF kind = "none" THEN "continue"
    ELSE IF Dedupes(prayer) /\ Key(prayer, kind) \in m.triggered_alerts THEN "continue"
    ELSE "raise"

\* what a prayer's branch does once the window is known: "continue" (no
\* window: next prayer), "return" (key already fired) or "raise"
WindowOutcome(m, prayer, kind) ==
    IF kind = "none" THEN "continue"
    ELSE IF Dedupes(prayer) /\ Key(prayer, kind) \in m.triggered_alerts THEN "return"
    ELSE "raise"

ParsedOutcome(m, t, prayer, time_24h) ==
    IF time_24h = None THEN "continue"
    ELSE WindowOutcome(m, prayer, WindowKind(prayer, PrayerSeconds(time_24h) - t))

\* variant: an unparseable field ends the loop
LoopOutcome_Abort(m, today_prayers, t, prayer) ==
    IF prayer \notin DOMAIN today_prayers THEN "continue"
    ELSE IF convert_12h_to_24h(today_prayers[prayer]) = None THEN "return"
    ELSE ParsedOutcome(m, t, prayer, convert_12h_to_24h(today_prayers[prayer]))

\* the body of the prayer loop for one prayer
LoopOutcome(m, today_prayers, t, prayer) ==
    IF prayer \notin DOMAIN today_prayers THEN "continue"
    ELSE ParsedOutcome(m, t, prayer, convert_12h_to_24h(today_prayers[prayer]))

\* the assignments of a window branch that raises
RaiseKind(m, prayer, kind) ==
    show_alert([m EXCEPT !.triggered_alerts =
                             IF Dedupes(prayer) THEN @ \cup {Key(prayer, kind)} ELSE @,
                         !.alert_active = TRUE,
                         !.current_alert = Key(prayer, kind)],
               Key(prayer, kind), TypeOfKind(kind), DurationOf(prayer, kind))

Raise(m, today_prayers, t, prayer) ==
    RaiseKind(m, prayer,
              WindowKind(prayer,
                         PrayerSeconds(convert_12h_to_24h(today_prayers[prayer])) - t))

\* for prayer in prayer_names: ... from index i on
RECURSIVE PrayerLoop(_, _, _, _)
PrayerLoop(m, today_prayers, t, i) ==
    IF i > Len(prayer_names) THEN m
    ELSE LET o == LoopOutcome(m, today_prayers, t, prayer_names[i])
         IN  IF o = "continue" THEN PrayerLoop(m, today_prayers, t, i + 1)
             ELSE IF o = "return" THEN m
             ELSE Raise(m, today_prayers, t, prayer_names[i])

\* variant: a guard without the azan override
GuardOutcome_NoOverride(m, today_prayers, t) ==
    IF ~(m.alert_active /\ m.current_alert # None) THEN "pass"
    ELSE IF convert_12h_to_24h(IF m.current_alert.prayer \in DOMAIN today_prayers
                               THEN today_prayers[m.current_alert.prayer]
                               ELSE Txt("")) = None
    THEN "pass"
    ELSE "return"

\* the active-alert guard: "return", "override" (hide_alert, then the loop)
\* or "pass" (the loop runs with the alert left as it is)
GuardOutcome(m, today_prayers, t) ==
    IF ~(m.alert_active /\ m.current_alert # None) THEN "pass"
    ELSE LET current_prayer == m.current_alert.prayer
             current_alert_type == KindHead(m.current_alert.kind)
             time_str == IF current_prayer \in DOMAIN today_prayers
                         THEN today_prayers[current_prayer] ELSE Txt("")
             time_24h == convert_12h_to_24h(time_str)
         IN  IF time_24h = None THEN "pass"
             ELSE IF /\ OverrideLo <= PrayerSeconds(time_24h) - t
                     /\ PrayerSeconds(time_24h) - t <= OverrideHi
                     /\ current_alert_type # "azan"
                  THEN "override"
                  ELSE "return"

\* AlertManager.check_alerts(current_datetime), date d and time of day t
check_alerts(m, rows, d, t) ==
    IF Len(rows) = 0 THEN m
    ELSE LET today_prayers == get_prayer_times_for_date(rows, d)
             g == GuardOutcome(m, today_prayers, t)
             mg == [m EXCEPT !.guard = g]
         IN  IF g = "return" THEN mg
             ELSE IF g = "override" THEN PrayerLoop(hide_alert(mg), today_prayers, t, 1)
             ELSE PrayerLoop(mg, today_prayers, t, 1)

----------------------------------------------------------------------------
(* MarqueeManager.  A text is the sequence of its characters; the message  *)
(* of an alert is one unit of such a sequence.                             *)

\* the flash message of the default configuration, two characters long here
FlashMessage == <<"W", "e">>

\* the five spaces of padded_text
Padding == <<" ", " ", " ", " ", " ">>

\* padded_text * 3
Buffer(message) ==
    (message \o Padding) \o (message \o Padding) \o (message \o Padding)

\* MarqueeManager.update_text(message)
update_text(message) ==
    [original_text |-> message, label_text |-> Buffer(message), shifts |-> 0]

\* variant: the last character moves to the front
RotateLeft_Right(text) == <<text[Len(text)]>> \o SubSeq(text, 1, Len(text) - 1)

\* current_text[1:] + current_text[0] of MarqueeManager.update_marquee
RotateLeft(text) == Tail(text) \o <<Head(text)>>

\* the attributes of PrayerTimesUI that AlertManager and the dialogs look up
PrayerTimesUI_attributes ==
    {"update_time", "update_prayer_display", "update_flash_message", "upload_csv",
     "save_settings", "save_csv", "test_prayer_alert", "open_settings",
     "marquee_manager", "alert_manager"}

\* AlertManager.show_alert: if hasattr(self.parent, 'update_marquee_text'),
\* the message goes to the marquee; m is the AlertManager after the call
MarqueeAfter(m) ==
    IF m.raised # None /\ "update_marquee_text" \in PrayerTimesUI_attributes
    THEN update_text(<<m.raised>>)
    ELSE [original_text |-> original_text, label_text |-> label_text, shifts |-> shifts]

----------------------------------------------------------------------------
(* The handlers *)

\* PrayerTimesUI.update_time's tail: the stale-state cleanup and the midnight reset
\* variant: the stale state is never cleared
Cleanup_Never(m) == m

\* variant: the clean-up leaves the key
Cleanup_KeepKey(m) ==
    IF m.alert_active /\ m.ia.alert_frame = None
    THEN [m EXCEPT !.alert_active = FALSE]
    ELSE m

Cleanup(m) ==
    IF m.alert_active /\ m.ia.alert_frame = None
    THEN [m EXCEPT !.alert_active = FALSE, !.current_alert = None]
    ELSE m

\* variant: the reset one second late
MidnightReset_Late(m, t) ==
    IF t = 1 THEN [m EXCEPT !.triggered_alerts = {}] ELSE m

MidnightReset(m, t) ==
    IF t = 0 THEN [m EXCEPT !.triggered_alerts = {}] ELSE m

\* PrayerTimesUI.update_prayer_display as far as it matters to the handler
\* that calls it: it returns at once for an empty store, raises KeyError for
\* a row of today without the Hijri date, and else updates the labels
update_prayer_display(rows, d) ==
    IF Len(rows) = 0 THEN "return"
    ELSE IF "Tarikh Hijri" \notin DOMAIN get_prayer_times_for_date(rows, d) THEN "KeyError"
    ELSE "done"

\* PrayerTimesUI.update_time with the wall clock read at date d, time of day t:
\* an exception of update_prayer_display ends the handler before check_alerts
UpdateTimeResult(d, t) ==
    IF update_prayer_display(prayer_times, d) = "KeyError" THEN AMState
    ELSE MidnightReset(Cleanup(check_alerts(AMState, prayer_times, d, t)), t)

IsKey(message) == "prayer" \in DOMAIN message

\* the 1-second timer of the window fires: update_time, the clock having
\* advanced by step seconds since the last call
Tick(step) ==
    \E t \in {(now + step) % DaySeconds} :
    \E d \in {day + ((now + step) \div DaySeconds)} :
    \E m \in {UpdateTimeResult(d, t)} :
        /\ timer_active => lag < 1
        /\ fade0 = 0
        /\ now' = t
        /\ day' = d
        /\ alert_active' = m.alert_active
        /\ current_alert' = m.current_alert
        /\ triggered_alerts' = m.triggered_alerts
        /\ alert_frame' = m.ia.alert_frame
        /\ alert_type' = m.ia.alert_type
        /\ remaining_time' = m.ia.remaining_time
        /\ timer_active' = m.ia.timer_active
        /\ lag' = IF m.ia.fresh \/ ~m.ia.timer_active THEN 0 ELSE lag + 1
        /\ fade0' = fade1 + m.ia.fades
        /\ fade1' = 0
        /\ raised' = m.raised
        /\ fired' = IF update_prayer_display(prayer_times, d) = "KeyError" THEN fired
                    ELSE IF t = 0 THEN {}
                    ELSE IF m.raised # None THEN fired \cup {m.raised} ELSE fired
        /\ last' = "tick"
        /\ guard' = m.guard
        /\ ticks' = ticks + 1
        /\ aborted' = (update_prayer_display(prayer_times, d) = "KeyError")
        /\ label_text' = MarqueeAfter(m).label_text
        /\ original_text' = MarqueeAfter(m).original_text
        /\ shifts' = MarqueeAfter(m).shifts
        /\ UNCHANGED <<storeVars, convVars, configVars>>
        /\ UNCHANGED <<prayer_times, expired, user>>

\* IntegratedAlert.update_countdown: the countdown timer fires
update_countdown ==
    \E ia \in {IF remaining_time - 1 <= 0
                THEN IA_hide_alert([IAState EXCEPT !.remaining_time = @ - 1])
                ELSE [IAState EXCEPT !.remaining_time = @ - 1]} :
        /\ timer_active
        /\ lag > -1
        /\ alert_frame' = ia.alert_frame
        /\ remaining_time' = ia.remaining_time
        /\ timer_active' = ia.timer_active
        /\ lag' = IF ia.timer_active THEN lag - 1 ELSE 0
        /\ fade1' = fade1 + ia.fades
        /\ raised' = None
        /\ last' = "countdown"
        /\ guard' = "none"
        /\ expired' = (expired \/ ia.remaining_time <= 0)
        /\ UNCHANGED <<storeVars, convVars, marqueeVars, configVars>>
        /\ UNCHANGED <<now, day, prayer_times, alert_active, current_alert,
                       triggered_alerts, alert_type, fade0, fired, ticks, user, aborted>>

\* the finished signal of a fade-out animation: delete_alert_frame
FadeOutFinished ==
    /\ fade0 + fade1 > 0
    /\ fade0' = IF fade0 > 0 THEN fade0 - 1 ELSE fade0
    /\ fade1' = IF fade0 > 0 THEN fade1 ELSE fade1 - 1
    /\ alert_frame' = IF alert_frame # None THEN delete_alert_frame(alert_frame)
                      ELSE alert_frame
    /\ raised' = None
    /\ last' = "fade"
    /\ guard' = "none"
    /\ UNCHANGED <<storeVars, convVars, marqueeVars, configVars>>
    /\ UNCHANGED <<now, day, prayer_times, alert_active, current_alert,
                   triggered_alerts, alert_type, remaining_time, timer_active, lag,
                   fired, expired, ticks, user, aborted>>

\* the Dismiss button of the frame: clicked is connected to
\* IntegratedAlert.hide_alert
Dismiss ==
    \E ia \in {IA_hide_alert(IAState)} :
        /\ alert_frame # None
        /\ user < MaxUser
        /\ user' = user + 1
        /\ alert_frame' = ia.alert_frame
        /\ timer_active' = ia.timer_active
        /\ lag' = IF ia.timer_active THEN lag ELSE 0
        /\ fade1' = fade1 + ia.fades
        /\ raised' = None
        /\ last' = "dismiss"
        /\ guard' = "none"
        /\ UNCHANGED <<storeVars, convVars, marqueeVars, configVars>>
        /\ UNCHANGED <<now, day, prayer_times, alert_active, current_alert,
                       triggered_alerts, alert_type, remaining_time, fade0, fired,
                       expired, ticks, aborted>>

\* a test button of the settings dialog: AlertManager.test_alert(type)
TestAlert(type) ==
    \E m \in {test_alert(AMState, type)} :
        /\ user < MaxUser
        /\ user' = user + 1
        /\ alert_active' = m.alert_active
        /\ current_alert' = m.current_alert
        /\ alert_frame' = m.ia.alert_frame
        /\ alert_type' = m.ia.alert_type
        /\ remaining_time' = m.ia.remaining_time
        /\ timer_active' = m.ia.timer_active
        /\ lag' = 0
        /\ fade1' = fade1 + m.ia.fades
        /\ raised' = m.raised
        /\ last' = "test"
        /\ guard' = "none"
        /\ label_text' = MarqueeAfter(m).label_text
        /\ original_text' = MarqueeAfter(m).original_text
        /\ shifts' = MarqueeAfter(m).shifts
        /\ UNCHANGED <<storeVars, convVars, configVars>>
        /\ UNCHANGED <<now, day, prayer_times, triggered_alerts, fade0, fired,
                       expired, ticks, aborted>>

----------------------------------------------------------------------------
(* Schedules *)

Row(d, imsak, subuh, syuruk, zohor, asar, maghrib, isyak) ==
    [c \in {DateCol, "Tarikh Hijri", "Hari"} \cup Prayers |->
        CASE c = DateCol -> d
          [] c \in {"Tarikh Hijri", "Hari"} -> Txt("Unknown")
          [] c = "Imsak" -> imsak
          [] c = "Subuh" -> subuh
          [] c = "Syuruk" -> syuruk
          [] c = "Zohor" -> zohor
          [] c = "Asar" -> asar
          [] c = "Maghrib" -> maghrib
          [] c = "Isyak" -> isyak]

\* a row without the columns in cols
Without(row, cols) == [c \in DOMAIN row \ cols |-> row[c]]

\* an ordinary day
RowA(d) ==
    Row(d, T12(5, 40, "AM"), T12(5, 50, "AM"), T12(7, 5, "AM"), T12(1, 0, "PM"),
        T12(4, 20, "PM"), T12(7, 15, "PM"), T12(8, 30, "PM"))

\* Isyak 20 minutes after Maghrib
RowClose(d) ==
    Row(d, T12(5, 40, "AM"), T12(5, 50, "AM"), T12(7, 5, "AM"), T12(1, 0, "PM"),
        T12(4, 20, "PM"), T12(7, 0, "PM"), T12(7, 20, "PM"))

\* malformed and missing fields, 24-hour and padded texts among the good ones
RowBad(d) ==
    Without(Row(d, T24(25, 99), T24(5, 50), Txt("N/A"), [T12(1, 0, "PM") EXCEPT !.ws = TRUE],
                T12(4, 20, "PM"), Txt(""), T24(20, 30)),
            {"Asar"})

\* a late Isyak, the evening before an ordinary day
RowEve(d) ==
    Row(d, T12(5, 40, "AM"), T12(5, 50, "AM"), T12(7, 5, "AM"), T12(1, 0, "PM"),
        T12(4, 20, "PM"), T12(7, 15, "PM"), T12(11, 59, "PM"))

HMS(h, m, sec) == h * 3600 + m * 60 + sec

----------------------------------------------------------------------------
(* Specifications *)

\* no upload is running and nothing has been asked of the store
NoLog == [backup |-> "none", write |-> "none", restore |-> "none"]

NoMessage == [box |-> "none", text |-> "none", col |-> "none"]

StoreAtRest ==
    /\ data_file = None
    /\ backup_file = None
    /\ pc = "idle"
    /\ csv_reader = None
    /\ upload_rows = <<>>
    /\ message_box = NoMessage
    /\ result = None
    /\ prior = None
    /\ old_times = <<>>
    /\ save_log = NoLog
    /\ uploads = 0
    /\ retry_count = 0

ConvAtRest ==
    /\ conv_arg = None
    /\ conv_ret = <<>>

\* setup_animation has run on the label of the flash message
MarqueeAtRest ==
    /\ original_text = FlashMessage
    /\ label_text = Buffer(FlashMessage)
    /\ shifts = 0

\* no configuration file has been looked at
ConfigAtRest ==
    /\ config_file = None
    /\ config = None

\* the engine as constructed, with the schedule rows, at date d and time t
EngineAt(rows, d, t) ==
    /\ now = t
    /\ day = d
    /\ prayer_times = rows
    /\ alert_active = FALSE
    /\ current_alert = None
    /\ triggered_alerts = {}
    /\ alert_frame = None
    /\ alert_type = "None"
    /\ remaining_time = 0
    /\ timer_active = FALSE
    /\ lag = 0
    /\ fade0 = 0
    /\ fade1 = 0
    /\ raised = None
    /\ fired = {}
    /\ last = "init"
    /\ guard = "none"
    /\ expired = FALSE
    /\ ticks = 0
    /\ user = 0
    /\ aborted = FALSE

InitAt(rows, d, t) ==
    /\ EngineAt(rows, d, t)
    /\ StoreAtRest
    /\ ConvAtRest
    /\ MarqueeAtRest
    /\ ConfigAtRest

\* the program is started shortly before a window opens
Scenarios ==
    { [rows |-> <<RowA(0)>>, now |-> HMS(5, 34, 28)],
      [rows |-> <<RowA(0)>>, now |-> HMS(12, 54, 27)],
      [rows |-> <<RowA(0)>>, now |-> HMS(12, 59, 56)],
      [rows |-> <<RowBad(0)>>, now |-> HMS(5, 39, 28)],
      [rows |-> <<RowBad(0)>>, now |-> HMS(12, 54, 27)],
      [rows |-> <<RowEve(0), RowA(1)>>, now |-> HMS(23, 59, 20)] }

Init == \E sc \in Scenarios : InitAt(sc.rows, 0, sc.now)

update_time == ticks < MaxTicks /\ Tick(1)

Next ==
    \/ update_time
    \/ update_countdown
    \/ FadeOutFinished
    \/ Dismiss
    \/ \E type \in AlertTypes : TestAlert(type)

Spec == Init /\ [][Next]_vars

\* days without user action: the evening of day 0, then the days the schedule
\* has rows for, each swept from 00:00:00 to 23:59:59
DaySchedules == { <<RowEve(0), RowA(1)>>, <<RowEve(0), RowClose(1)>> }

DayInit == \E rows \in DaySchedules : InitAt(rows, 0, HMS(23, 58, 50))

DayTick == ~(day >= Len(prayer_times) - 1 /\ now = DaySeconds - 1) /\ Tick(1)

DayNext ==
    \/ DayTick
    \/ update_countdown
    \/ FadeOutFinished

DaySpec == DayInit /\ [][DayNext]_vars

\* the wall clock is set forward between two calls of update_time (or
\* check_alerts is driven with chosen instants): the clock advances by 1 s or 5 min
JumpScenarios ==
    { [rows |-> <<RowA(0)>>, now |-> HMS(12, 49, 59)],
      [rows |-> <<RowA(0)>>, now |-> HMS(12, 54, 59)],
      [rows |-> <<RowA(0)>>, now |-> HMS(12, 59, 59)],
      [rows |-> <<RowA(0)>>, now |-> HMS(13, 4, 59)],
      [rows |-> <<RowClose(0)>>, now |-> HMS(19, 14, 59)] }

JumpInit == \E sc \in JumpScenarios : InitAt(sc.rows, 0, sc.now)

JumpTick == ticks < MaxJumps /\ \E step \in {1, 300} : Tick(step)

JumpNext ==
    \/ JumpTick
    \/ update_countdown
    \/ FadeOutFinished

JumpSpec == JumpInit /\ [][JumpNext]_vars

\* no user action, from shortly before a reminder window: the alert is raised,
\* counts down and expires
QuietScenarios ==
    { [rows |-> <<RowA(0)>>, now |-> HMS(5, 34, 28)],
      [rows |-> <<RowA(0)>>, now |-> HMS(12, 54, 27)],
      [rows |-> <<RowBad(0)>>, now |-> HMS(5, 39, 28)] }

QuietInit == \E sc \in QuietScenarios : InitAt(sc.rows, 0, sc.now)

QuietTick == ticks < MaxQuiet /\ Tick(1)

QuietNext ==
    \/ QuietTick
    \/ update_countdown
    \/ FadeOutFinished

QuietSpec == QuietInit /\ [][QuietNext]_vars

\* the timers keep firing and a started fade-out finishes
LiveSpec ==
    /\ QuietSpec
    /\ WF_vars(QuietTick)
    /\ WF_vars(update_countdown)
    /\ WF_vars(FadeOutFinished)

\* a day the schedule has no row for, swept from 00:00:00 to 23:59:59 without
\* user action: the schedule is empty, or holds the day before only
DegradedSchedules == { <<>>, <<RowA(0)>> }

DegradedInit == \E rows \in DegradedSchedules : InitAt(rows, 0, DaySeconds - 1)

DegradedTick == ~(day > 0 /\ now = DaySeconds - 1) /\ Tick(1)

DegradedNext == DegradedTick

DegradedSpec == DegradedInit /\ [][DegradedNext]_vars

\* convert_12h_to_24h called on a text, and then on what it returned
TimeTexts ==
    { [hh |-> h, mm |-> m, mer |-> e, ws |-> w] :
        h \in 0..MaxHour, m \in 0..MaxMinute, e \in {"AM", "PM", ""}, w \in BOOLEAN }
    \cup {Txt(""), Txt("N/A"), None}

ConvInit ==
    /\ EngineAt(<<>>, 0, 0)
    /\ StoreAtRest
    /\ MarqueeAtRest
    /\ ConfigAtRest
    /\ conv_arg \in TimeTexts
    /\ conv_ret = <<>>

Convert ==
    /\ Len(conv_ret) = 0
    /\ conv_ret' = <<convert_12h_to_24h(conv_arg)>>
    /\ UNCHANGED <<engineVars, prayer_times, storeVars, conv_arg, marqueeVars, configVars>>

ConvertAgain ==
    /\ Len(conv_ret) = 1
    /\ conv_ret' = Append(conv_ret, convert_12h_to_24h(conv_ret[1]))
    /\ UNCHANGED <<engineVars, prayer_times, storeVars, conv_arg, marqueeVars, configVars>>

ConvNext ==
    \/ Convert
    \/ ConvertAgain

ConvSpec == ConvInit /\ [][ConvNext]_vars

----------------------------------------------------------------------------
(* The schedule store and its files.  A CSV file is its header (the set of *)
(* its column names) and its rows, each a record over the header, as       *)
(* csv.DictReader yields them; None is a file that does not exist.         *)

\* fieldnames of save_prayer_times, required_columns of upload_csv
required_columns ==
    <<"Tarikh Miladi", "Tarikh Hijri", "Hari",
      "Imsak", "Subuh", "Syuruk", "Zohor", "Asar", "Maghrib", "Isyak">>

fieldnames == {required_columns[i] : i \in 1..Len(required_columns)}

\* a schedule row with the two columns the alert engine does not read
FullRow(row) ==
    [c \in DOMAIN row \cup {"Tarikh Hijri", "Hari"} |->
        IF c \in DOMAIN row THEN row[c] ELSE Txt("Unknown")]

CsvFile(header, rows) == [header |-> header, rows |-> rows]

\* a file opened for writing and closed with nothing written
EmptyFile == CsvFile({}, <<>>)

\* csv.DictWriter.writerow: the row under the fieldnames, '' where it has none
WrittenRow(row) ==
    [c \in fieldnames |-> IF c \in DOMAIN row THEN row[c] ELSE Txt("")]

\* the rows DictWriter raises ValueError for: they have a key not in fieldnames
ExtraKeyRows(rows) == {i \in 1..Len(rows) : ~(DOMAIN rows[i] \subseteq fieldnames)}

\* the number of rows writerows writes: all, or those before the first row
\* with an extra key
Writable(rows) ==
    IF ExtraKeyRows(rows) = {} THEN Len(rows)
    ELSE (CHOOSE i \in ExtraKeyRows(rows) : \A j \in ExtraKeyRows(rows) : i <= j) - 1

\* the data file after writeheader and the first n rows
WrittenFile(rows, n) == CsvFile(fieldnames, [i \in 1..n |-> WrittenRow(rows[i])])

\* load_prayer_times from a store just constructed (prayer_times = []):
\* the rows of the file if it exists, can be read and has rows, else the
\* fallback data
load_prayer_times(file, readable) ==
    IF file # None /\ readable /\ Len(file.rows) > 0 THEN file.rows
    ELSE fallback_prayer_times

\* variant: no column is ever found missing
MissingColumns_None(row) == {}

\* the required columns a row of the uploaded file does not have
MissingColumns(row) ==
    {i \in 1..Len(required_columns) : required_columns[i] \notin DOMAIN row}

\* for col in required_columns: if col not in row: raise KeyError(...)
FirstMissing(row) ==
    required_columns[CHOOSE i \in MissingColumns(row) : \A j \in MissingColumns(row) : i <= j]

\* variant: the local list is the store's own list
append_row_Aliased(local, store, row) ==
    [upload_rows |-> Append(local, row), prayer_times |-> Append(local, row)]

\* prayer_times.append(row) in upload_csv: the local list grows, the store's
\* list is another object
append_row(local, store, row) ==
    [upload_rows |-> Append(local, row), prayer_times |-> store]

\* the message boxes of upload_csv
Critical(col) == [box |-> "critical", text |-> "CSV format error", col |-> col]

Warning == [box |-> "warning", text |-> "Failed to save prayer times", col |-> "none"]

Success == [box |-> "information", text |-> "Success", col |-> "none"]

\* upload_csv: the user has chosen the file f, which is opened.  result holds
\* the lookups made since the operation began.
UploadOpen(f) ==
    /\ pc = "idle"
    /\ uploads < MaxUploads
    /\ uploads' = uploads + 1
    /\ pc' = "read"
    /\ csv_reader' = [file |-> f, pos |-> 0]
    /\ upload_rows' = <<>>
    /\ old_times' = prayer_times
    /\ prior' = data_file
    /\ message_box' = NoMessage
    /\ save_log' = NoLog
    /\ result' = None
    /\ UNCHANGED retry_count
    /\ UNCHANGED <<engineVars, prayer_times, convVars, marqueeVars, configVars, data_file, backup_file>>

\* upload_csv: one turn of the loop over csv_reader: the row is appended to
\* the local list, then its columns are validated
UploadRow ==
    /\ pc = "read"
    /\ csv_reader.pos < Len(csv_reader.file.rows)
    /\ \E row \in {csv_reader.file.rows[csv_reader.pos + 1]} :
       \E a \in {append_row(upload_rows, prayer_times, row)} :
          /\ upload_rows' = a.upload_rows
          /\ prayer_times' = a.prayer_times
          /\ csv_reader' = [csv_reader EXCEPT !.pos = @ + 1]
          /\ IF MissingColumns(row) # {}
             THEN /\ message_box' = Critical(FirstMissing(row))
                  /\ pc' = "idle"
             ELSE /\ message_box' = message_box
                  /\ pc' = "read"
    /\ UNCHANGED retry_count
    /\ UNCHANGED <<engineVars, convVars, marqueeVars, configVars, data_file, backup_file, result, prior,
                   old_times, save_log, uploads>>

\* upload_csv calls save_prayer_times(prayer_times): the store takes the list;
\* an empty list is not saved
UploadSave ==
    /\ pc = "read"
    /\ csv_reader.pos = Len(csv_reader.file.rows)
    /\ prayer_times' = upload_rows
    /\ IF upload_rows = <<>>
       THEN /\ message_box' = Warning
            /\ pc' = "idle"
       ELSE /\ message_box' = message_box
            /\ pc' = "backup"
    /\ UNCHANGED retry_count
    /\ UNCHANGED <<engineVars, convVars, marqueeVars, configVars, data_file, backup_file, csv_reader,
                   upload_rows, result, prior, old_times, save_log, uploads>>

\* save_prayer_times: the existing data file is copied to the backup path; a
\* failure is logged and the save goes on.  A failed copy leaves the backup
\* file as it was or empty.
SaveBackup ==
    /\ pc = "backup"
    /\ pc' = "write"
    /\ IF data_file = None
       THEN /\ backup_file' = backup_file
            /\ save_log' = [save_log EXCEPT !.backup = "skipped"]
       ELSE \/ /\ backup_file' = data_file
               /\ save_log' = [save_log EXCEPT !.backup = "ok"]
            \/ /\ backup_file' \in {backup_file, EmptyFile}
               /\ save_log' = [save_log EXCEPT !.backup = "failed"]
    /\ UNCHANGED retry_count
    /\ UNCHANGED <<engineVars, prayer_times, convVars, marqueeVars, configVars, data_file, csv_reader,
                   upload_rows, message_box, result, prior, old_times, uploads>>

\* save_prayer_times: the data file is written.  DictWriter raises for a row
\* with a key outside fieldnames; any write can fail.  A failed write leaves
\* the file as it was (it could not be opened), empty, or with the header
\* and the rows written so far.
SaveWrite ==
    /\ pc = "write"
    /\ \E n \in {Writable(prayer_times)} :
          \/ /\ n = Len(prayer_times)
             /\ data_file' = WrittenFile(prayer_times, n)
             /\ save_log' = [save_log EXCEPT !.write = "ok"]
             /\ message_box' = Success
             /\ pc' = "idle"
          \/ /\ data_file' \in {data_file, EmptyFile,
                                WrittenFile(prayer_times,
                                            IF n = Len(prayer_times) THEN n - 1 ELSE n)}
             /\ save_log' = [save_log EXCEPT !.write = "failed"]
             /\ message_box' = message_box
             /\ pc' = "restore"
    /\ UNCHANGED retry_count
    /\ UNCHANGED <<engineVars, prayer_times, convVars, marqueeVars, configVars, backup_file, csv_reader,
                   upload_rows, result, prior, old_times, uploads>>

\* save_prayer_times, after a failed write: the backup file, if there is
\* one, is copied over the data file; then upload_csv shows the warning
SaveRestore ==
    /\ pc = "restore"
    /\ pc' = "idle"
    /\ message_box' = Warning
    /\ IF backup_file = None
       THEN /\ data_file' = data_file
            /\ save_log' = [save_log EXCEPT !.restore = "skipped"]
       ELSE \/ /\ data_file' = backup_file
               /\ save_log' = [save_log EXCEPT !.restore = "ok"]
            \/ /\ data_file' \in {data_file, EmptyFile}
               /\ save_log' = [save_log EXCEPT !.restore = "failed"]
    /\ UNCHANGED retry_count
    /\ UNCHANGED <<engineVars, prayer_times, convVars, marqueeVars, configVars, backup_file, csv_reader,
                   upload_rows, result, prior, old_times, uploads>>

\* get_prayer_times_for_date(date_str) called on the store: the first entry
\* of that date, else the fallback entry if the date is today's, else None
Lookup(date) ==
    /\ result' = [date |-> date,
                  entry |-> IF ~NoRowFor(prayer_times, date) \/ date = day
                            THEN get_prayer_times_for_date(prayer_times, date)
                            ELSE None]
    /\ UNCHANGED retry_count
    /\ UNCHANGED <<engineVars, prayer_times, convVars, marqueeVars, configVars, data_file, backup_file, pc,
                   csv_reader, upload_rows, message_box, prior, old_times, save_log,
                   uploads>>

\* the program is started again: PrayerTimesDataManager.__init__ makes the
\* store with an empty list and calls load_prayer_times
Restart ==
    /\ pc = "idle"
    /\ uploads < MaxUploads
    /\ uploads' = uploads + 1
    /\ pc' = "load"
    /\ prayer_times' = <<>>
    /\ retry_count' = 0
    /\ csv_reader' = IF data_file = None THEN None ELSE [file |-> data_file, pos |-> 0]
    /\ upload_rows' = <<>>
    /\ message_box' = NoMessage
    /\ result' = None
    /\ prior' = data_file
    /\ old_times' = <<>>
    /\ save_log' = NoLog
    /\ UNCHANGED <<engineVars, convVars, marqueeVars, configVars, data_file, backup_file>>

\* upload_csv: the chosen file cannot be opened or decoded
UploadFail ==
    /\ pc = "idle"
    /\ uploads < MaxUploads
    /\ uploads' = uploads + 1
    /\ message_box' = [box |-> "critical", text |-> "Failed to load CSV", col |-> "none"]
    /\ csv_reader' = None
    /\ upload_rows' = <<>>
    /\ old_times' = prayer_times
    /\ prior' = data_file
    /\ save_log' = NoLog
    /\ result' = None
    /\ UNCHANGED retry_count
    /\ UNCHANGED <<engineVars, prayer_times, convVars, marqueeVars, configVars, data_file, backup_file, pc>>

\* max_retries of load_prayer_times
max_retries == 3

\* variant: nothing stands in for an empty store
OrFallback_Empty(rows) == rows

\* if not self.prayer_times: self.prayer_times = self.fallback_prayer_times
OrFallback(rows) == IF rows = <<>> THEN fallback_prayer_times ELSE rows

\* load_prayer_times: one turn of its while loop, an attempt to read the data
\* file.  The list of all rows is assigned in one statement: the file is read
\* (the loop ends by return, or by break if it has no rows), or the attempt
\* raises, assigns nothing and counts as a retry, or there is no file (break).
LoadRead ==
    /\ pc = "load"
    /\ retry_count < max_retries
    /\ \/ /\ data_file # None
          /\ prayer_times' = data_file.rows
          /\ retry_count' = retry_count
          /\ pc' = IF Len(data_file.rows) > 0 THEN "idle" ELSE "fallback"
       \/ /\ data_file # None
          /\ prayer_times' = prayer_times
          /\ retry_count' = retry_count + 1
          /\ pc' = IF retry_count + 1 < max_retries THEN "load" ELSE "fallback"
       \/ /\ data_file = None
          /\ prayer_times' = prayer_times
          /\ retry_count' = retry_count
          /\ pc' = "fallback"
    /\ UNCHANGED <<engineVars, convVars, marqueeVars, configVars, data_file, backup_file, csv_reader, upload_rows,
                   message_box, result, prior, old_times, save_log, uploads>>

\* load_prayer_times, after the loop: the fallback data if nothing is held
LoadFallback ==
    /\ pc = "fallback"
    /\ pc' = "idle"
    /\ prayer_times' = OrFallback(prayer_times)
    /\ UNCHANGED retry_count
    /\ UNCHANGED <<engineVars, convVars, marqueeVars, configVars, data_file, backup_file, csv_reader, upload_rows,
                   message_box, result, prior, old_times, save_log, uploads>>

\* the data file installed with the program, and an older backup
InstalledFile == CsvFile(fieldnames, <<FullRow(RowEve(0))>>)

OldBackup == CsvFile(fieldnames, <<FullRow(RowClose(0))>>)

InitialDisks ==
    { [data |-> None, backup |-> None],
      [data |-> InstalledFile, backup |-> None],
      [data |-> InstalledFile, backup |-> OldBackup] }

\* a schedule with two rows of the same date
UploadGood ==
    CsvFile(fieldnames, <<FullRow(RowA(0)), FullRow(RowClose(0)), FullRow(RowA(1))>>)

\* a schedule without a row for today
UploadOther == CsvFile(fieldnames, <<FullRow(RowClose(1))>>)

\* a header and no rows
UploadEmpty == CsvFile(fieldnames, <<>>)

\* the header lacks the columns cols, and so does every row
UploadMissing(cols) ==
    CsvFile(fieldnames \ cols,
            <<Without(FullRow(RowA(0)), cols), Without(FullRow(RowA(1)), cols)>>)

\* a column more than the ten
UploadExtra ==
    CsvFile(fieldnames \cup {"Catatan"},
            <<[c \in fieldnames \cup {"Catatan"} |->
                  IF c = "Catatan" THEN Txt("") ELSE FullRow(RowA(0))[c]]>>)

UploadFiles ==
    {UploadGood, UploadOther, UploadEmpty, UploadExtra, UploadMissing({"Hari", "Asar"})}
        \cup {UploadMissing({c}) : c \in fieldnames}

LookupDates == {day, day + 1, day + 2}

StoreInit ==
    \E disk \in InitialDisks :
        /\ EngineAt(load_prayer_times(disk.data, TRUE), 0, HMS(12, 0, 0))
        /\ data_file = disk.data
        /\ backup_file = disk.backup
        /\ pc = "idle"
        /\ csv_reader = None
        /\ upload_rows = <<>>
        /\ message_box = NoMessage
        /\ result = None
        /\ prior = None
        /\ old_times = load_prayer_times(disk.data, TRUE)
        /\ save_log = NoLog
        /\ uploads = 0
        /\ retry_count = 0
        /\ ConvAtRest
        /\ MarqueeAtRest
        /\ ConfigAtRest

StoreNext ==
    \/ \E f \in UploadFiles : UploadOpen(f)
    \/ UploadFail
    \/ UploadRow
    \/ UploadSave
    \/ SaveBackup
    \/ SaveWrite
    \/ SaveRestore
    \/ \E date \in LookupDates : Lookup(date)
    \/ Restart
    \/ LoadRead
    \/ LoadFallback

StoreSpec == StoreInit /\ [][StoreNext]_vars

\* load_prayer_times runs to its end: a function's statements follow one another
LoadSpec ==
    /\ StoreSpec
    /\ WF_vars(LoadRead)
    /\ WF_vars(LoadFallback)

\* the messages the marquee is given: texts of one to MaxMessage characters
Chars == {"a", "b"}

Messages == UNION {[1..n -> Chars] : n \in 1..MaxMessage}

\* the marquee on its own: set up with the flash message, engine and store idle
MarqueeInit ==
    /\ EngineAt(<<>>, 0, 0)
    /\ StoreAtRest
    /\ ConvAtRest
    /\ ConfigAtRest
    /\ MarqueeAtRest

\* MarqueeManager.update_text(message), whatever the rotation state
MarqueeUpdateText(message) ==
    /\ label_text' = update_text(message).label_text
    /\ original_text' = update_text(message).original_text
    /\ shifts' = update_text(message).shifts
    /\ UNCHANGED <<engineVars, prayer_times, storeVars, convVars, configVars>>

\* MarqueeManager.update_marquee: the 100 ms timer of the marquee fires
update_marquee ==
    /\ Len(label_text) > 0
    /\ label_text' = RotateLeft(label_text)
    /\ shifts' = (shifts + 1) % Len(label_text)
    /\ UNCHANGED <<engineVars, prayer_times, storeVars, convVars, configVars,
                   original_text>>

MarqueeNext ==
    \/ \E message \in Messages : MarqueeUpdateText(message)
    \/ update_marquee

MarqueeSpec == MarqueeInit /\ [][MarqueeNext]_vars

\* an ordinary day but for Imsak at five past midnight
RowNight(d) == [RowA(d) EXCEPT !["Imsak"] = T12(12, 5, "AM")]

\* stores a tick has to cope with, from shortly before midnight of day 0: an
\* empty store, no row for either day, rows with malformed, N/A and absent
\* fields, rows of a file without the column Hari or Tarikh Hijri
RobustSchedules ==
    { <<>>,
      <<RowA(2)>>,
      <<RowBad(0), RowBad(1)>>,
      <<Without(RowEve(0), Prayers \ {"Isyak"}), Without(RowNight(1), Prayers \ {"Imsak"})>>,
      <<Without(RowEve(0), {"Hari"}), Without(RowNight(1), {"Hari"})>>,
      <<Without(RowEve(0), {"Tarikh Hijri"}), Without(RowNight(1), {"Tarikh Hijri"})>> }

RobustInit == \E rows \in RobustSchedules : InitAt(rows, 0, HMS(23, 59, 40))

RobustTick == ticks < MaxQuiet /\ Tick(1)

RobustNext ==
    \/ RobustTick
    \/ update_countdown
    \/ FadeOutFinished

RobustSpec == RobustInit /\ [][RobustNext]_vars

----------------------------------------------------------------------------
(* ConfigValidator and ConfigManager.load_config.  A JSON value is a string *)
(* [str |-> s] or a value of another type [type |-> ...]; a JSON object is  *)
(* a record of such values.                                                *)

Str(s) == [str |-> s]

IsStr(value) == "str" \in DOMAIN value

\* ConfigManager.default_config
default_config ==
    [mosque_name |-> Str(""),
     flash_message |-> Str("Welcome to the Mosque Prayer Times Display"),
     background_image_path |-> Str(""),
     background_scaling_mode |-> Str("cover"),
     logo_path |-> Str(""),
     data_file_path |-> Str("prayer_times.csv")]

\* dict.get(key, default)
Get(dict, key, default) == IF key \in DOMAIN dict THEN dict[key] ELSE default

\* x or y, for strings
Or(x, y) == IF x = Str("") THEN y ELSE x

\* ConfigValidator.validate_string
validate_string(value, allow_empty) ==
    IF ~IsStr(value) THEN Str("")
    ELSE IF ~allow_empty /\ value = Str("") THEN Str("")
    ELSE value

\* ConfigValidator.validate_path with must_exist=False
validate_path(value) == validate_string(value, TRUE)

\* ConfigValidator.validate_config
validate_config(cfg, default) ==
    [mosque_name |->
        validate_string(Get(cfg, "mosque_name", default.mosque_name), TRUE),
     flash_message |->
        Or(validate_string(Get(cfg, "flash_message", default.flash_message), FALSE),
           default.flash_message),
     background_image_path |->
        validate_path(Get(cfg, "background_image_path", default.background_image_path)),
     logo_path |->
        validate_path(Get(cfg, "logo_path", default.logo_path)),
     data_file_path |->
        Or(validate_path(Get(cfg, "data_file_path", default.data_file_path)),
           default.data_file_path),
     background_scaling_mode |->
        Get(cfg, "background_scaling_mode", default.background_scaling_mode)]

\* what config.json holds: no file, text that is not JSON, a JSON value that
\* is not an object, or an object
NoFile == [file |-> "absent"]

NotJson == [file |-> "not json"]

NotObject == [file |-> "list"]

IsObject(file) == "file" \notin DOMAIN file

\* ConfigManager.load_config
load_config(file) ==
    IF file = NoFile THEN default_config
    ELSE IF file = NotJson THEN default_config
    ELSE IF file = NotObject THEN default_config
    ELSE validate_config(file, default_config)

\* the values a key of config.json is tried with
StringValues == {Str(""), Str("text"), [type |-> "number"]}

ModeValues == {Str("contain"), Str("zoom"), [type |-> "number"]}

KeyValues(key) == IF key = "background_scaling_mode" THEN ModeValues ELSE StringValues

\* the keys config.json is tried with: the recognized ones and one more
FileKeys == DOMAIN default_config \cup {"theme"}

\* the JSON objects over a set of keys
Objects(keys) ==
    {f \in [keys -> StringValues \cup ModeValues] : \A key \in keys : f[key] \in KeyValues(key)}

ConfigFiles ==
    {NoFile, NotJson, NotObject} \cup UNION {Objects(keys) : keys \in SUBSET FileKeys}

\* the program is about to start, with some config.json
ConfigInit ==
    /\ EngineAt(<<>>, 0, 0)
    /\ StoreAtRest
    /\ ConvAtRest
    /\ MarqueeAtRest
    /\ config_file \in ConfigFiles
    /\ config = None

\* ConfigManager.__init__: self.config = self.load_config(); without a file
\* the defaults are saved
LoadConfig ==
    /\ config = None
    /\ config' = load_config(config_file)
    /\ config_file' = IF config_file = NoFile THEN default_config ELSE config_file
    /\ UNCHANGED <<engineVars, prayer_times, storeVars, convVars, marqueeVars>>

ConfigNext == LoadConfig

ConfigSpec == ConfigInit /\ [][ConfigNext]_vars

\* Asar five minutes after Zohor: the 5-minute window of Zohor and the
\* 10-minute window of Asar are the same seconds
RowTight(d) == [RowA(d) EXCEPT !["Asar"] = T12(1, 5, "PM")]

\* no user action, from shortly before the two windows open
TightInit == InitAt(<<RowTight(0)>>, 0, HMS(12, 54, 25))

TightTick == ticks < MaxQuiet /\ Tick(1)

TightNext ==
    \/ TightTick
    \/ update_countdown
    \/ FadeOutFinished

TightSpec == TightInit /\ [][TightNext]_vars

\* a morning without user action: from before the windows of Imsak and Subuh
\* to after the time of Syuruk
MorningInit == InitAt(<<RowA(0)>>, 0, HMS(5, 29, 0))

MorningTick == now < HMS(7, 5, 40) /\ Tick(1)

MorningNext ==
    \/ MorningTick
    \/ update_countdown
    \/ FadeOutFinished

MorningSpec == MorningInit /\ [][MorningNext]_vars

\* a day whose Subuh is five minutes after midnight
RowEarly(d) == [RowA(d) EXCEPT !["Subuh"] = T12(12, 5, "AM")]

\* the program runs over the midnight before such a day; the user may
\* dismiss the alert
MidnightInit == InitAt(<<RowA(0), RowEarly(1)>>, 0, HMS(23, 59, 57))

MidnightTick == ticks < MaxTicks /\ Tick(1)

MidnightNext ==
    \/ MidnightTick
    \/ update_countdown
    \/ FadeOutFinished
    \/ Dismiss

MidnightSpec == MidnightInit /\ [][MidnightNext]_vars

\* Isyak a few minutes after midnight, the day after a late Isyak
RowLate(d) == [RowA(d) EXCEPT !["Isyak"] = T12(12, 3, "AM")]

\* the 1-second timer is delivered late now and then: update_time reads a
\* clock that has advanced by 1 or 2 seconds since its last call.  From
\* before Isyak of day 0 to after Isyak of day 1, no user action
DriftInit == InitAt(<<RowEve(0), RowLate(1)>>, 0, HMS(23, 58, 57))

DriftTick == ~(day = 1 /\ now > HMS(0, 3, 1)) /\ \E step \in {1, 2} : Tick(step)

DriftNext ==
    \/ DriftTick
    \/ update_countdown
    \/ FadeOutFinished

DriftSpec == DriftInit /\ [][DriftNext]_vars

----------------------------------------------------------------------------
(* Notions the properties are stated with *)

Parseable(row) ==
    {p \in Prayers \cap DOMAIN row : convert_12h_to_24h(row[p]) # None}

TimeOf(row, p) == PrayerSeconds(convert_12h_to_24h(row[p]))

KindsOf(p) ==
    IF p \in azan_prayer_names THEN {"10min", "5min", "azan", "iqamah", "prayer_time"}
    ELSE {"5min"}

\* the least diff_seconds of the window of a kind: the window is open while
\* TimeOf - now is at least this
WindowLo(kind) ==
    CASE kind = "10min" -> Reminder10Lo
      [] kind = "5min" -> Reminder5Lo
      [] kind = "azan" -> AzanLo
      [] kind = "iqamah" -> IqamahLo
      [] kind = "prayer_time" -> PrayerTimeLo

TodayRow == get_prayer_times_for_date(prayer_times, day)

\* the parseable prayers of a row with their times of day
Times(row) ==
    {[prayer |-> p, at |-> TimeOf(row, p)] : p \in Parseable(row)}

\* every window of the row that has closed today has raised its alert today
ClosedWindowsFired(times) ==
    \A x \in times : \A k \in KindsOf(x.prayer) :
        now > x.at - WindowLo(k) => Key(x.prayer, k) \in fired

\* the parseable times are, in time order, 50 minutes apart (10 minutes after
\* Imsak), and every window lies within the day
WellSpaced(times) ==
    /\ \A x \in times :
          /\ x.at >= Reminder10Hi
          /\ x.at - PrayerTimeLo < DaySeconds
    /\ \A x, y \in times :
          (x # y /\ x.at <= y.at) =>
              y.at - x.at >= (IF x.prayer = "Imsak" THEN 10 * 60 ELSE 50 * 60)

IsAzanKey(k) == k # None /\ k.kind = "azan"

Idle == ~alert_active /\ current_alert = None

----------------------------------------------------------------------------
(* C1 *)

\* C1: between two midnight resets evaluate raises the alert of a key at most
\* once: a tick never raises a key already raised since the last reset.
C1_AtMostOncePerDay ==
    [][(last' = "tick" /\ raised' # None) => raised' \notin fired]_vars

----------------------------------------------------------------------------
(* C2 *)

\* C2: in a day swept in 1-second ticks without user action every window of
\* every parseable prayer of the row raises its alert: once a window has
\* closed, its key has been raised that day.
C2_EveryWindowFires ==
    day >= 1 => \A times \in {Times(TodayRow)} : ClosedWindowsFired(times)

\* C2, amended: the same, for rows whose prayers are well spaced.
C2_SpacedWindowsFire ==
    day >= 1 => \A times \in {Times(TodayRow)} :
                    WellSpaced(times) => ClosedWindowsFired(times)

\* the end of a well-spaced day: all 27 keys have been raised
C2_Witness ==
    /\ day = 1 /\ now = DaySeconds - 1
    /\ WellSpaced(Times(TodayRow))
    /\ Cardinality(fired) = 27
    /\ \A p \in Prayers : \A k \in KindsOf(p) : Key(p, k) \in fired

----------------------------------------------------------------------------
(* C3 *)

\* the tick that reads date d, time t observes the azan window of prayer p
AzanWindowAt(p, d, t) ==
    LET row == get_prayer_times_for_date(prayer_times, d)
    IN  /\ p \in Parseable(row)
        /\ AzanLo <= TimeOf(row, p) - t
        /\ TimeOf(row, p) - t <= AzanHi

\* a window of a prayer before p in the iteration order matches at d, t
EarlierWindowAt(p, d, t) ==
    LET row == get_prayer_times_for_date(prayer_times, d)
    IN  \E i, j \in 1..Len(prayer_names) :
            /\ i < j
            /\ prayer_names[j] = p
            /\ prayer_names[i] \in Parseable(row)
            /\ WindowKind(prayer_names[i], TimeOf(row, prayer_names[i]) - t) # "none"

PreemptCase ==
    /\ last' = "tick"
    /\ alert_active
    /\ current_alert # None
    /\ current_alert.kind # "azan"
    /\ AzanWindowAt(current_alert.prayer, day', now')
    /\ Key(current_alert.prayer, "azan") \notin triggered_alerts

\* C3: a tick that observes the azan window of the prayer of the active
\* non-azan alert, its azan not yet fired, ends with that prayer's azan active.
C3_AzanPreempts ==
    [][PreemptCase =>
          (alert_active' /\ current_alert' = Key(current_alert.prayer, "azan"))]_vars

\* C3, amended: the same, when no prayer earlier in the iteration order has a
\* window that matches at that instant.
C3_AzanPreemptsFirstMatch ==
    [][(PreemptCase /\ ~EarlierWindowAt(current_alert.prayer, day', now')) =>
          (alert_active' /\ current_alert' = Key(current_alert.prayer, "azan"))]_vars

\* the tick has force-dismissed Zohor's reminder and raised Zohor's azan
C3_Witness ==
    /\ last = "tick"
    /\ guard = "override"
    /\ raised = Key("Zohor", "azan")
    /\ current_alert = Key("Zohor", "azan")
    /\ alert_active
    /\ Key("Zohor", "5min") \in triggered_alerts

----------------------------------------------------------------------------
(* C4 *)

\* C4: while an alert is active a tick raises nothing but the azan of the
\* prayer of the active non-azan alert.
C4_NoRaiseWhileActive ==
    [][(last' = "tick" /\ alert_active /\ raised' # None) =>
          /\ current_alert # None
          /\ current_alert.kind # "azan"
          /\ raised' = Key(current_alert.prayer, "azan")]_vars

----------------------------------------------------------------------------
(* C5 *)

\* C5: a tick dismisses an active alert whose countdown is still running only
\* when it raises the azan of the same prayer in that tick.
C5_NoEarlyDismiss ==
    [][(/\ last' = "tick"
        /\ guard' = "override"
        /\ alert_frame # None /\ timer_active /\ remaining_time > 0) =>
          raised' = Key(current_alert.prayer, "azan")]_vars

----------------------------------------------------------------------------
(* C6 *)

\* C6: an active azan alert whose countdown is still running (it has neither
\* expired nor been dismissed) is left active, with its key, by every tick.
C6_AzanStaysActive ==
    [][(/\ last' = "tick"
        /\ alert_active /\ IsAzanKey(current_alert)
        /\ timer_active /\ remaining_time > 0) =>
          (alert_active' /\ current_alert' = current_alert)]_vars

----------------------------------------------------------------------------
(* C7 *)

\* C7: right after the Dismiss button the session is idle.
C7_DismissSynchronous ==
    last = "dismiss" => Idle

----------------------------------------------------------------------------
(* C8 *)

\* C8: once the countdown of an active alert has reached zero the engine
\* becomes idle (the ticks the model still allows being enough for the
\* fade-out and the clean-up tick).
C8_ExpiryLeadsToIdle ==
    (last = "countdown" /\ remaining_time <= 0 /\ alert_active /\ ticks + 2 <= MaxQuiet)
        ~> Idle

\* after an expiry the engine was idle again and evaluate has raised the next
\* matching alert
C8_Witness ==
    /\ expired
    /\ last = "tick"
    /\ raised # None
    /\ alert_active
    /\ remaining_time = ReminderDuration

----------------------------------------------------------------------------
(* C9 *)

\* C9: the tick that observes 00:00:00 leaves triggered_alerts empty, and a
\* key is in triggered_alerts only if it was raised since that tick: no key of
\* the previous day is left to suppress an alert of the new day.
C9_MidnightReset ==
    /\ (last = "tick" /\ now = 0) => triggered_alerts = {}
    /\ triggered_alerts \subseteq fired

\* Isyak's azan, raised in the evening of day 0, is raised again on day 1
C9_Witness ==
    /\ day = 1
    /\ prayer_times[1] = RowEve(0)
    /\ last = "tick"
    /\ raised = Key("Isyak", "azan")
    /\ Key("Isyak", "azan") \in triggered_alerts

----------------------------------------------------------------------------
(* C10 *)

\* the rows without their absent-or-unparseable prayer fields
CleanRows(rows) ==
    [i \in 1..Len(rows) |-> Without(rows[i], (Prayers \cap DOMAIN rows[i]) \ Parseable(rows[i]))]

HasBadField(row) == (Prayers \cap DOMAIN row) \ Parseable(row) # {}

\* C10: a tick does to the session exactly what it would do if the
\* unparseable fields of the row did not exist.
C10_BadFieldSkipped ==
    [][last' = "tick" =>
          \E m \in {MidnightReset(Cleanup(check_alerts(AMState, CleanRows(prayer_times),
                                                        day', now')), now')} :
              /\ m.alert_active = alert_active'
              /\ m.current_alert = current_alert'
              /\ m.triggered_alerts = triggered_alerts'
              /\ m.raised = raised'
              /\ m.ia.alert_frame = alert_frame'
              /\ m.ia.remaining_time = remaining_time']_vars

\* Subuh's reminder is raised from a row whose Imsak, earlier in the
\* iteration order, is "25:99"
C10_Witness ==
    /\ HasBadField(TodayRow)
    /\ "Imsak" \in DOMAIN TodayRow /\ "Imsak" \notin Parseable(TodayRow)
    /\ last = "tick"
    /\ raised = Key("Subuh", "10min")
    /\ current_alert = Key("Subuh", "10min")

----------------------------------------------------------------------------
(* C11 *)

\* C11: when the schedule has no row for today, the query for today returns
\* the placeholder, whose seven prayer times are "N/A", and evaluate has
\* raised nothing: no alert is active, no key has fired.
C11_DegradedRaisesNothing ==
    NoRowFor(prayer_times, day) =>
        /\ \A p \in Prayers : p \in DOMAIN TodayRow /\ TodayRow[p] = Txt("N/A")
        /\ raised = None
        /\ ~alert_active
        /\ current_alert = None
        /\ alert_frame = None
        /\ triggered_alerts = {}

\* a tick of a day the schedule has no row for, at the instant when the row
\* of the day before would raise Imsak's reminder
C11_Witness ==
    /\ prayer_times = <<RowA(0)>>
    /\ NoRowFor(prayer_times, day)
    /\ last = "tick"
    /\ now = HMS(5, 34, 30)

----------------------------------------------------------------------------
(* C12 *)

\* the instants of the end-to-end scenario and the alert kind expected at each
ScenarioInstants == {HMS(12, 50, 0), HMS(12, 55, 0), HMS(13, 0, 0), HMS(13, 5, 0)}

ScenarioKind(t) ==
    CASE t = HMS(12, 50, 0) -> "10min"
      [] t = HMS(12, 55, 0) -> "5min"
      [] t = HMS(13, 0, 0) -> "azan"
      [] t = HMS(13, 5, 0) -> "iqamah"

\* the row of date d gives Zohor as 01:00 PM
ZohorAt1PM(d) ==
    LET row == get_prayer_times_for_date(prayer_times, d)
    IN  "Zohor" \in Parseable(row) /\ TimeOf(row, "Zohor") = HMS(13, 0, 0)

\* a tick of the scenario: it observes one of the instants, the key expected
\* there not having fired yet
ScenarioTick ==
    /\ last' = "tick"
    /\ now' \in ScenarioInstants
    /\ ZohorAt1PM(day')
    /\ Key("Zohor", ScenarioKind(now')) \notin fired

\* the engine lets the tick raise the kind: no alert is active, or the kind is
\* azan and the active alert is a non-azan alert of Zohor
FreeFor(kind) ==
    \/ ~alert_active
    \/ /\ kind = "azan"
       /\ current_alert # None
       /\ current_alert.prayer = "Zohor"
       /\ current_alert.kind # "azan"

\* C12: with Zohor at 01:00 PM, evaluate at 12:50:00, 12:55:00, 13:00:00 and
\* 13:05:00 raises Zohor's 10-minute reminder, 5-minute reminder, azan and
\* iqamah, each replacing what was active.
C12_EndToEnd ==
    [][ScenarioTick => raised' = Key("Zohor", ScenarioKind(now'))]_vars

\* C12, amended: it raises them when no alert is active at the call (for the
\* azan: also over a non-azan alert of Zohor); an alert still active otherwise
\* blocks the call, which raises nothing.
C12_EndToEndWhenFree ==
    [][ScenarioTick =>
          raised' = IF FreeFor(ScenarioKind(now'))
                    THEN Key("Zohor", ScenarioKind(now'))
                    ELSE None]_vars

\* 13:00:00: the azan has been raised over the 10-minute reminder of 12:50:00,
\* the call of 12:55:00 having raised nothing
C12_Witness ==
    /\ last = "tick"
    /\ now = HMS(13, 0, 0)
    /\ raised = Key("Zohor", "azan")
    /\ current_alert = Key("Zohor", "azan")
    /\ Key("Zohor", "10min") \in fired
    /\ Key("Zohor", "5min") \notin fired

----------------------------------------------------------------------------
(* C13 *)

\* a tick of the afternoon of a day whose Zohor is 01:00 PM, the iqamah
\* alert having fired
AfterZohorIqamah ==
    /\ last = "tick"
    /\ ZohorAt1PM(day)
    /\ Key("Zohor", "iqamah") \in fired

\* C13: at 13:25:01, Zohor's iqamah having fired and no user having acted,
\* the engine is idle.
C13_IdleAt132501 ==
    (AfterZohorIqamah /\ now = HMS(13, 25, 1)) => Idle

\* C13, amended: from 13:19:00 the prayer_time alert of Zohor is active, at
\* 13:25:01 too, with its 15-minute countdown running; the engine is idle
\* again after that countdown, from 13:34:05 until Asar's first window.
C13_HoldThenIdle ==
    AfterZohorIqamah =>
        /\ (HMS(13, 19, 0) <= now /\ now <= HMS(13, 33, 55)) =>
              /\ alert_active
              /\ current_alert = Key("Zohor", "prayer_time")
              /\ timer_active
              /\ remaining_time > 0
        /\ (HMS(13, 34, 5) <= now /\ now <= HMS(13, 40, 0)) => Idle

\* 13:34:05: idle, the prayer_time alert having fired
C13_Witness ==
    /\ AfterZohorIqamah
    /\ now = HMS(13, 34, 5)
    /\ Idle
    /\ Key("Zohor", "prayer_time") \in fired
    /\ alert_frame = None

----------------------------------------------------------------------------
(* C14 *)

\* "hh:mm AM" or "hh:mm PM" with hh in 01..12 and mm in 00..59, whitespace
\* around it or not
Valid12(s) ==
    /\ IsTimeText(s)
    /\ s.mer \in {"AM", "PM"}
    /\ 1 <= s.hh /\ s.hh <= 12
    /\ 0 <= s.mm /\ s.mm <= 59

\* the hour of the reference computation
ReferenceHour(hh, mer) ==
    IF mer = "AM" THEN (IF hh = 12 THEN 0 ELSE hh)
    ELSE (IF hh = 12 THEN 12 ELSE hh + 12)

\* C14: for a valid 12-hour text convert_12h_to_24h returns the "HH:MM" text
\* of the reference computation.
C14_ConvertMatchesReference ==
    (Valid12(conv_arg) /\ Len(conv_ret) >= 1) =>
        conv_ret[1] = T24(ReferenceHour(conv_arg.hh, conv_arg.mer), conv_arg.mm)

\* " 01:00 PM " has given "13:00"
C14_Witness ==
    /\ conv_arg = [T12(1, 0, "PM") EXCEPT !.ws = TRUE]
    /\ conv_ret = <<T24(13, 0)>>

----------------------------------------------------------------------------
(* C15 *)

\* "hh:mm" with hh in 0..23 and mm in 0..59
Valid24(s) ==
    /\ IsTimeText(s)
    /\ s.mer = ""
    /\ 0 <= s.hh /\ s.hh <= 23
    /\ 0 <= s.mm /\ s.mm <= 59

\* C15: for a valid 24-hour text convert_12h_to_24h returns a text of the same
\* hour and minute, and returns that text again when called on it.
C15_ConvertIdempotent24 ==
    Valid24(conv_arg) =>
        /\ Len(conv_ret) >= 1 =>
              /\ Valid24(conv_ret[1])
              /\ conv_ret[1].hh = conv_arg.hh
              /\ conv_ret[1].mm = conv_arg.mm
        /\ Len(conv_ret) >= 2 => conv_ret[2] = conv_ret[1]

\* " 23:59 " has given "23:59", and that "23:59" again
C15_Witness ==
    /\ conv_arg = [T24(23, 59) EXCEPT !.ws = TRUE]
    /\ conv_ret = <<T24(23, 59), T24(23, 59)>>


----------------------------------------------------------------------------
(* C16 *)

\* the index of the first row of rows that has the date
FirstIndex(rows, date) ==
    CHOOSE i \in 1..Len(rows) :
        /\ DateCol \in DOMAIN rows[i] /\ rows[i][DateCol] = date
        /\ \A j \in 1..(i - 1) : ~(DateCol \in DOMAIN rows[j] /\ rows[j][DateCol] = date)

\* C16: a lookup for a date present in the store returns the first row, in
\* insertion order, whose Gregorian date equals the queried date; a later row
\* of the same date is never returned.
C16_LookupFirstMatch ==
    [][\A date \in LookupDates :
          (Lookup(date) /\ ~NoRowFor(prayer_times, date)) =>
              /\ result'.date = date
              /\ result'.entry = prayer_times[FirstIndex(prayer_times, date)]
              /\ \A j \in 1..Len(prayer_times) :
                    (/\ j > FirstIndex(prayer_times, date)
                     /\ prayer_times[j][DateCol] = date
                     /\ prayer_times[j] # prayer_times[FirstIndex(prayer_times, date)])
                        => result'.entry # prayer_times[j]]_vars

\* the store holds two different rows of today's date and the lookup for
\* today has returned the first
C16_Witness ==
    /\ prayer_times = UploadGood.rows
    /\ prayer_times[1][DateCol] = prayer_times[2][DateCol]
    /\ prayer_times[1] # prayer_times[2]
    /\ result # None
    /\ result.date = prayer_times[2][DateCol]
    /\ result.entry = prayer_times[1]


----------------------------------------------------------------------------
(* C17 *)

\* the complete row sets a lookup may see while the schedule is replaced or
\* loaded: the one before the operation, the one the operation reads, and,
\* for a load that read nothing, the fallback data
CompleteSets ==
    {old_times, fallback_prayer_times}
        \cup (IF csv_reader = None THEN {} ELSE {csv_reader.file.rows})

\* C17: at every step of an upload, a save or a load, the store a lookup
\* reads is the complete old row set or the complete new row set, never a
\* partially filled one; and what a lookup has returned is an entry of such a
\* set, the fallback entry, or none.
C17_ReplaceAtomic ==
    /\ prayer_times \in CompleteSets
    /\ result # None =>
          \/ result.entry = None
          \/ result.entry = fallback_prayer_times[1]
          \/ \E rows \in CompleteSets : \E i \in 1..Len(rows) : result.entry = rows[i]

\* an upload has read some of the rows of its file and not all, and a lookup
\* made meanwhile has returned an entry of the old row set
C17_Witness ==
    /\ pc = "read"
    /\ csv_reader.pos > 0
    /\ csv_reader.pos < Len(csv_reader.file.rows)
    /\ Len(upload_rows) = csv_reader.pos
    /\ prayer_times = old_times
    /\ result # None
    /\ \E i \in 1..Len(old_times) : result.entry = old_times[i]
    /\ \A i \in 1..Len(upload_rows) : result.entry # upload_rows[i]


----------------------------------------------------------------------------
(* C18 *)

\* the rows of the uploaded file that lack one of the ten columns
LackingRows ==
    IF csv_reader = None
    THEN {}
    ELSE {i \in 1..Len(csv_reader.file.rows) :
             ~(fieldnames \subseteq DOMAIN csv_reader.file.rows[i])}

\* the first of the ten columns, in their order, that the row lacks
FirstLacking(row) ==
    required_columns[CHOOSE i \in 1..Len(required_columns) :
                        /\ required_columns[i] \notin DOMAIN row
                        /\ \A j \in 1..(i - 1) : required_columns[j] \in DOMAIN row]

\* C18: an upload whose rows lack one of the ten required columns never gets
\* as far as the save; once it has ended the error message names the missing
\* column, and at every step the store's schedule and the data file are what
\* they were before the upload started.
C18_RejectedWhole ==
    LackingRows # {} =>
        /\ pc \in {"read", "idle"}
        /\ prayer_times = old_times
        /\ data_file = prior
        /\ save_log = NoLog
        /\ pc = "idle" =>
              /\ message_box.box = "critical"
              /\ message_box.text = "CSV format error"
              /\ \E i \in LackingRows :
                    /\ \A j \in LackingRows : i <= j
                    /\ message_box.col = FirstLacking(csv_reader.file.rows[i])
                    /\ message_box.col \notin csv_reader.file.header

\* a file without the columns Hari and Asar has been rejected, naming Hari,
\* after its first row was read; the store holds the schedule it held
C18_Witness ==
    /\ pc = "idle"
    /\ csv_reader # None
    /\ csv_reader.file = UploadMissing({"Hari", "Asar"})
    /\ csv_reader.pos = 1
    /\ upload_rows # <<>>
    /\ message_box = Critical("Hari")
    /\ prayer_times = old_times
    /\ prayer_times # <<>>
    /\ data_file = prior


----------------------------------------------------------------------------
(* C19 *)

\* C19: when a save has failed while writing the data file and the restore
\* step has then succeeded, the data file holds what it held before that save
\* began, also when the backup copy of that save failed.
C19_RestoreGivesPrior ==
    (/\ pc = "idle"
     /\ save_log.write = "failed"
     /\ save_log.restore = "ok")
        => data_file = prior


----------------------------------------------------------------------------
(* C20 *)

\* C20: after any sequence of loads and uploads the store is not left
\* empty: replacing the schedule with an empty row set leaves the single
\* placeholder entry in the store, and the lookup for today never returns
\* none.
C20_NeverLeftEmpty ==
    /\ pc = "idle" => Len(prayer_times) > 0
    /\ (/\ pc = "idle"
        /\ csv_reader # None
        /\ csv_reader.file.rows = <<>>) => prayer_times = fallback_prayer_times
    /\ (result # None /\ result.date = day) => result.entry # None


----------------------------------------------------------------------------
(* C21 *)

\* C21: whenever an alert has been raised, by check_alerts or by a test
\* button, the marquee's buffer is the one built from that alert's message.
C21_RaisePushesMarquee ==
    raised # None =>
        /\ original_text = <<raised>>
        /\ label_text = Buffer(<<raised>>)


----------------------------------------------------------------------------
(* C22 *)

\* the text rotated left by k characters
Rotated(text, k) ==
    [i \in 1..Len(text) |-> text[((i - 1 + k) % Len(text)) + 1]]

\* C22: k marquee ticks after update_text(message), called in any rotation
\* state, the label shows the buffer (message and five spaces, three times)
\* rotated left by k modulo its length; each tick moves the first character
\* to the end.
C22_MarqueeRotation ==
    /\ Len(Buffer(original_text)) = Len(original_text) + Len(original_text)
                                    + Len(original_text) + Len(Padding \o Padding \o Padding)
    /\ shifts \in 0..(Len(Buffer(original_text)) - 1)
    /\ label_text = Rotated(Buffer(original_text), shifts)

\* a message has been given to the marquee and has been rotated past its own
\* length
C22_Witness ==
    /\ original_text \in Messages
    /\ shifts > Len(original_text)
    /\ label_text # Buffer(original_text)


----------------------------------------------------------------------------
(* C23 *)

\* the duration of each kind of alert
KindDuration(type) ==
    CASE type = "reminder" -> ReminderDuration
      [] type = "azan" -> AzanDuration
      [] type = "iqamah" -> IqamahDuration
      [] type = "prayer_time" -> PrayerTimeDuration

\* C23: a test of a kind, in whatever state, leaves an alert of exactly that
\* kind shown and active with that kind's duration on the countdown, adds no
\* key to triggered_alerts and does not change current_alert.
C23_TestFrame ==
    [][\A type \in AlertTypes :
          TestAlert(type) =>
              /\ alert_active'
              /\ alert_frame' # None
              /\ alert_frame'.type = type
              /\ alert_type' = type
              /\ remaining_time' = KindDuration(type)
              /\ timer_active'
              /\ triggered_alerts' = triggered_alerts
              /\ current_alert' = current_alert]_vars

\* a prayer_time test has been made while a real alert, whose key has fired,
\* was current
C23_Witness ==
    /\ last = "test"
    /\ alert_type = "prayer_time"
    /\ remaining_time = PrayerTimeDuration
    /\ current_alert # None
    /\ current_alert \in triggered_alerts
    /\ alert_active


----------------------------------------------------------------------------
(* C24 *)

\* C24: whatever the store holds, no call of update_time ends with an
\* exception: the handler gets through the display update, the evaluation of
\* the alerts and the midnight reset.
C24_TickNeverAborts == ~aborted


----------------------------------------------------------------------------
(* C25 *)

\* the image scaling modes the program knows
ScalingModes == {Str("cover"), Str("contain"), Str("stretch")}

\* the value is not one the key can take: not a string, or not a scaling mode
InvalidFor(key, value) ==
    \/ ~IsStr(value)
    \/ key = "background_scaling_mode" /\ value \notin ScalingModes

\* C25: the loaded configuration has exactly the recognized keys; a key
\* missing from the file has its default value, a value of an invalid type
\* or an unrecognized value is replaced by the key's default, for every
\* recognized key, and a valid value is kept or, if empty, replaced by the
\* default.
C25_LoadYieldsValidConfig ==
    config # None =>
        /\ DOMAIN config = DOMAIN default_config
        /\ \A key \in DOMAIN default_config :
              IF ~IsObject(config_file) \/ key \notin DOMAIN config_file
              THEN config[key] = default_config[key]
              ELSE IF InvalidFor(key, config_file[key])
              THEN config[key] = default_config[key]
              ELSE config[key] \in {config_file[key], default_config[key]}


----------------------------------------------------------------------------
(* C26 *)

\* the kind of the window of the i-th prayer that matches at date d, time t
\* ("none": no window, or no parseable time)
MatchAt(i, d, t) ==
    LET row == get_prayer_times_for_date(prayer_times, d)
        p == prayer_names[i]
    IN  IF p \in Parseable(row) THEN WindowKind(p, TimeOf(row, p) - t) ELSE "none"

\* the key of that window has fired: it is in the set keys
FiredAt(i, d, t, keys) == Key(prayer_names[i], MatchAt(i, d, t)) \in keys

\* the call of check_alerts of this step got as far as the prayer loop
LoopRan ==
    /\ last' = "tick"
    /\ ~aborted'
    /\ Len(prayer_times) > 0
    /\ guard' # "return"

\* C26: when the loop meets an earlier prayer whose matching window has
\* already fired today, it still raises, in the same call, the alert of the
\* first later prayer whose window matches and has not fired.
C26_FiredWindowPassedOver ==
    [][\A i, j \in 1..Len(prayer_names) :
          (/\ LoopRan
           /\ i < j
           /\ MatchAt(i, day', now') # "none"
           /\ FiredAt(i, day', now', triggered_alerts)
           /\ \A k \in 1..(j - 1) :
                 \/ MatchAt(k, day', now') = "none"
                 \/ FiredAt(k, day', now', triggered_alerts)
           /\ MatchAt(j, day', now') # "none"
           /\ ~FiredAt(j, day', now', triggered_alerts))
              => raised' = Key(prayer_names[j], MatchAt(j, day', now'))]_vars


----------------------------------------------------------------------------
(* C28 *)

\* the first prayer, in the order of prayer_names, a window of which matches
\* at date d, time t
FirstMatchAt(i, d, t) ==
    /\ MatchAt(i, d, t) # "none"
    /\ \A k \in 1..(i - 1) : MatchAt(k, d, t) = "none"

\* C28: a call of check_alerts raises at most one alert, and what it raises
\* is the alert of the first prayer, in the order Imsak, Subuh, Syuruk, Zohor,
\* Asar, Maghrib, Isyak, a window of which matches at that instant, also when
\* windows of two prayers overlap.
C28_FirstMatchWins ==
    [][(last' = "tick" /\ raised' # None) =>
          /\ \E i \in 1..Len(prayer_names) :
                /\ FirstMatchAt(i, day', now')
                /\ raised' = Key(prayer_names[i], MatchAt(i, day', now'))
          /\ current_alert' = raised'
          /\ alert_frame' # None /\ alert_frame'.message = raised'
          /\ triggered_alerts' \subseteq triggered_alerts \cup {raised'}]_vars

\* the windows of two prayers match at the same instant, and the earlier
\* prayer's alert has just been raised
C28_Witness ==
    /\ last = "tick"
    /\ raised # None
    /\ \E i, j \in 1..Len(prayer_names) :
          /\ i < j
          /\ raised.prayer = prayer_names[i]
          /\ MatchAt(i, day, now) # "none"
          /\ MatchAt(j, day, now) # "none"


----------------------------------------------------------------------------
(* C27 *)

\* no window of any prayer matches at date d, time t
NoMatchAt(d, t) == \A i \in 1..Len(prayer_names) : MatchAt(i, d, t) = "none"

\* C27: a call of check_alerts at an instant when no window of any prayer
\* matches leaves alert_active, current_alert, remaining_time and
\* triggered_alerts as they were, whether or not an alert is active.
C27_NoMatchNoChange ==
    [][(last' = "tick" /\ ~aborted' /\ NoMatchAt(day', now')) =>
          \A m \in {check_alerts(AMState, prayer_times, day', now')} :
              /\ m.alert_active = alert_active
              /\ m.current_alert = current_alert
              /\ m.ia.remaining_time = remaining_time
              /\ m.triggered_alerts = triggered_alerts]_vars


----------------------------------------------------------------------------
(* C29 *)

\* the duration of the alert of a key: 28 minutes for Syuruk's reminder,
\* else the duration of its kind
KeyDuration(key) ==
    IF key.prayer = "Syuruk" THEN SyurukDuration
    ELSE KindDuration(TypeOfKind(key.kind))

\* C29: the countdown of an alert raised by check_alerts starts at the
\* duration of its kind (30 s for the reminders of Imsak and the five
\* prayers, 28 min for Syuruk's, 3 min for the azan, 10 min for the iqamah,
\* 15 min for the prayer-time hold); each timeout of the countdown timer
\* takes exactly one second off, never below 0, and at 0 the timer stops.
C29_CountdownFromDuration ==
    [][/\ (last' = "tick" /\ raised' # None) =>
             /\ remaining_time' = KeyDuration(raised')
             /\ timer_active'
       /\ last' = "countdown" =>
             /\ remaining_time' = remaining_time - 1
             /\ remaining_time' >= 0
             /\ remaining_time' = 0 => ~timer_active']_vars

\* Imsak's reminder and the five alerts of Subuh have been raised, and the
\* 15-minute hold has just counted down to 0
C29_Witness ==
    /\ last = "countdown"
    /\ remaining_time = 0
    /\ alert_type = "prayer_time"
    /\ current_alert = Key("Subuh", "prayer_time")
    /\ {Key("Imsak", "5min"), Key("Subuh", "10min"), Key("Subuh", "5min"),
        Key("Subuh", "azan"), Key("Subuh", "iqamah")} \subseteq fired


----------------------------------------------------------------------------
(* C30 *)

\* the keys the engine holds or has raised today
KeysHeld ==
    triggered_alerts \cup fired
        \cup (IF current_alert = None THEN {} ELSE {current_alert})
        \cup (IF raised = None \/ ~IsKey(raised) THEN {} ELSE {raised})

\* C30: Imsak and Syuruk are reminder-only: the only keys of Imsak or Syuruk
\* that are current_alert, in triggered_alerts or raised are Imsak_5min and
\* Syuruk_5min.
C30_ReminderOnly ==
    \A key \in KeysHeld :
        key.prayer \in {"Imsak", "Syuruk"} => key.kind = "5min"

\* the instants of all five kinds of window have passed for Imsak, its
\* reminder has been raised, and Syuruk's reminder is the current alert
C30_Witness ==
    /\ Key("Imsak", "5min") \in fired
    /\ now > TimeOf(TodayRow, "Imsak") - PrayerTimeLo
    /\ current_alert = Key("Syuruk", "5min")
    /\ Key("Syuruk", "5min") \in triggered_alerts

----------------------------------------------------------------------------
(* C31 *)

\* C31: the finished signal of a fade-out leaves the frame of an alert whose
\* countdown is running (an alert that has neither expired nor been
\* dismissed) displayed, and the tick that follows leaves the engine active.
C31_StaleFadeOutHarmless ==
    [][/\ (last' = "fade" /\ timer_active /\ alert_frame # None) =>
              alert_frame' = alert_frame
       /\ (last' = "tick" /\ timer_active /\ alert_active /\ guard' # "override") =>
              alert_active']_vars

----------------------------------------------------------------------------
(* C32 *)

\* C32: after the tick that observes 00:00:00, the key of the alert that tick
\* raised is in triggered_alerts, and that key is not raised again later in
\* the day.
C32_MidnightRaiseKeepsKey ==
    /\ (last = "tick" /\ now = 0 /\ IsKey(raised) /\ Dedupes(raised.prayer)) =>
           raised \in triggered_alerts
    /\ (last = "tick" /\ day = 1 /\ now > 0 /\ now < HMS(0, 1, 0)) =>
           raised # Key("Subuh", "5min")

----------------------------------------------------------------------------
(* C33 *)

\* C33: on the day after the program was started, a tick that finds the
\* engine idle while the azan window of a prayer is the first that matches
\* raises that azan: the key of the day before does not suppress it, whether
\* or not a tick has observed 00:00:00.
C33_NextDayNotSuppressed ==
    [][\A i \in 1..Len(prayer_names) :
          (/\ LoopRan
           /\ day' = 1
           /\ ~alert_active
           /\ FirstMatchAt(i, day', now')
           /\ MatchAt(i, day', now') = "azan")
              => raised' = Key(prayer_names[i], "azan")]_vars

----------------------------------------------------------------------------
(* C34 *)

\* C34: in every reachable state current_alert is a key only if alert_active
\* is true: an inactive engine carries no stale key.
C34_KeyOnlyWhenActive ==
    current_alert # None => alert_active

\* an alert with a key has been raised, the user has acted, and a tick has
\* reset the engine: it is inactive again
C34_Witness ==
    /\ last = "tick"
    /\ ~alert_active
    /\ current_alert = None
    /\ \E key \in fired : Dedupes(key.prayer)
    /\ user = MaxUser

----------------------------------------------------------------------------
(* C35 *)

\* load_prayer_times returns in this step
LoadReturns == pc \in {"load", "fallback"} /\ pc' = "idle"

\* C35: load_prayer_times ends; it makes at most max_retries failed attempts
\* to read the data file; and when it returns the store holds the rows of the
\* data file, or, the file being absent, without rows or unreadable at every
\* attempt, the one fallback entry.
C35_LoadTerminates ==
    /\ [](retry_count <= max_retries)
    /\ [][LoadReturns =>
            \/ /\ data_file # None
               /\ Len(data_file.rows) > 0
               /\ prayer_times' = data_file.rows
            \/ /\ \/ data_file = None
                  \/ Len(data_file.rows) = 0
                  \/ retry_count = max_retries
               /\ prayer_times' = fallback_prayer_times
               /\ Len(prayer_times') = 1]_vars
    /\ (pc \in {"load", "fallback"}) ~> (pc = "idle")

\* the data file is there and has rows, three attempts to read it have
\* failed, and load_prayer_times has returned with the fallback entry
C35_Witness ==
    /\ pc = "idle"
    /\ retry_count = max_retries
    /\ data_file # None
    /\ Len(data_file.rows) > 0
    /\ prayer_times = fallback_prayer_times

----------------------------------------------------------------------------
(* C36 *)

\* C36: in every reachable state remaining_time is at least 0, and the
\* countdown timer is stopped whenever there is no alert frame.
C36_CountdownBounded ==
    /\ remaining_time >= 0
    /\ alert_frame = None => ~timer_active

====
